---- MODULE Spec2Model ----
(***************************************************************************)
(* The limit order book of src/src/orderbookv2.rs (MatchCore): add_order,  *)
(* cancel_order, match_order (modify) and the matching pass match_orders.  *)
(* Every public call is one atomic step.  A Rust panic ends the run: the   *)
(* variable panicked records its message and no further call is made.      *)
(* The venue book of src/src/orderbook.rs (VenueBook): update_book_ticker, *)
(* update_depth and get_best_bid_ask, driven by VenueSpec.  The two books  *)
(* share no state.                                                         *)
(***************************************************************************)
EXTENDS Integers, Sequences, FiniteSets, TLC

\* ---------------------------------------------------------------- bounds
MaxPrice == 2
MaxQty == 2
\* VenueBook: stored quantities up to MaxLots, in units of 1/10000; update
\* ids 0..MaxSeq.
MaxLots == 1
MaxSeq == 2

\* Order ids are only ever compared for equality: three distinct ids.
OrderIds == {1, 2, 3}
Prices == 1..MaxPrice
\* Submitted quantities are positive.
Quantities == 1..MaxQty

\* ---------------------------------------------------------------- types
GoodToCancel == "GoodToCancel"
FillAndKill == "FillAndKill"
OrderType == {GoodToCancel, FillAndKill}

Buy == "Buy"
Sell == "Sell"
Side == {Buy, Sell}

NoPanic == "none"
PanicOrderNotFound == "Order not found"
PanicFill == "Cannot fill more than the order quantity"
PanicUnwrapNone == "called Option::unwrap() on a None value"

\* Order::new
OrderNew(order_id, price, quantity, order_type, side) ==
    [order_id |-> order_id, price |-> price, remaining_quantity |-> quantity,
     initial_quantity |-> quantity, order_type |-> order_type, side |-> side]

\* OrderModify::new
OrderModifyNew(order_id, side, price, quantity) ==
    [order_id |-> order_id, side |-> side, price |-> price, quantity |-> quantity]

\* The orders a client can submit, and the modifications it can ask for.
Orders ==
    {OrderNew(i, p, q, t, s) : i \in OrderIds, p \in Prices, q \in Quantities,
                               t \in OrderType, s \in Side}

OrderModifies ==
    {OrderModifyNew(i, s, p, q) : i \in OrderIds, s \in Side, p \in {1, MaxPrice},
                                  q \in {1, MaxQty}}

\* ---------------------------------------------------------------- state
VARIABLES
    bids,      \* BTreeMap<Reverse<Price>, OrderList>: price -> queue of orders
    asks,      \* BTreeMap<Price, OrderList>: price -> queue of orders
    orders,    \* HashMap<OrderId, OrderPointer>: order id -> order
    trades,    \* the trades vector of the last call
    panicked,  \* NoPanic, or the message of the panic that ended the run
    lastOp,    \* the last call: its name, its order id, the order the index
               \* held under that id when the call began, and what it printed
    ledger,    \* per side: admitted initial quantity - filled - cancelled
    venue,     \* VenueBook: bids, asks (price -> quantity), last_update_id
    replay,    \* the venue book had only the depth updates newer than all
               \* depth updates before them been applied
    venueOp,   \* the last VenueBook call and whether it was dropped
    pass       \* the add_order call under way, step by step: where it
               \* stands in match_orders and the book as it has it

core == <<bids, asks, orders, trades, panicked, lastOp, ledger>>
venueVars == <<venue, replay, venueOp>>
vars == <<bids, asks, orders, trades, panicked, lastOp, ledger,
          venue, replay, venueOp, pass>>

\* ---------------------------------------------------------------- maps
EmptyMap == [k \in {} |-> <<>>]

MapRemove(m, k) == [x \in (DOMAIN m) \ {k} |-> m[x]]

MapPut(m, k, v) == [x \in (DOMAIN m) \cup {k} |-> IF x = k THEN v ELSE m[x]]

\* bids.iter().next(): the highest key (keys are Reverse<Price>)
BestBid(b) == CHOOSE p \in DOMAIN b : \A q \in DOMAIN b : q <= p

\* asks.iter().next(): the lowest key
BestAsk(a) == CHOOSE p \in DOMAIN a : \A q \in DOMAIN a : p <= q

Min(x, y) == IF x <= y THEN x ELSE y

ZeroQty == [s \in Side |-> 0]

\* The book a call works on, with what the call has produced so far:
\* the trades vector, the panic (if any), the message printed, and per side
\* the quantity admitted and the quantity taken out by cancel_order.
Book(b, a, o) ==
    [bids |-> b, asks |-> a, orders |-> o, trades |-> <<>>, panic |-> NoPanic,
     printed |-> "", admitted |-> ZeroQty, cancelled |-> ZeroQty]

\* ---------------------------------------------------------------- Order
\* Mutant of Fill: the fill is taken off the initial quantity as well.
FillShrinksInitial(order, quantity) ==
    IF quantity > order.remaining_quantity
    THEN [panic |-> PanicFill, order |-> order]
    ELSE [panic |-> NoPanic,
          order |-> [order EXCEPT !.remaining_quantity = @ - quantity,
                                  !.initial_quantity = @ - quantity]]

\* Order::fill
Fill(order, quantity) ==
    IF quantity > order.remaining_quantity
    THEN [panic |-> PanicFill, order |-> order]
    ELSE [panic |-> NoPanic,
          order |-> [order EXCEPT !.remaining_quantity = @ - quantity]]

\* Order::is_filled
IsFilled(order) == order.remaining_quantity = 0

\* An order is one shared cell (Rc<RefCell<Order>>): a write through the
\* level's pointer is seen through the index entry of the same order.
WriteThrough(o, order) ==
    IF order.order_id \in DOMAIN o
    THEN [o EXCEPT ![order.order_id] = order]
    ELSE o

\* Mutant of Retain: the front of the level is popped, whichever order it is.
RetainPopsFront(level, order_id) == Tail(level)

\* VecDeque::retain(|o| o.order_id != order_id)
Retain(level, order_id) ==
    SelectSeq(level, LAMBDA o : o.order_id # order_id)

\* ---------------------------------------------------------------- cancel_order
\* Mutant of CancelLevel: the order stays in its level.
CancelLevelKeepsOrder(m, price, order_id) == m

\* Mutant of CancelLevel: a level left empty is not removed.
CancelLevelKeepsEmpty(m, price, order_id) ==
    IF price \in DOMAIN m THEN MapPut(m, price, Retain(m[price], order_id)) ELSE m

CancelLevel(m, price, order_id) ==
    IF price \in DOMAIN m
    THEN LET kept == Retain(m[price], order_id)
         IN  IF kept = <<>> THEN MapRemove(m, price) ELSE MapPut(m, price, kept)
    ELSE m

CancelOrder(st, order_id) ==
    IF order_id \notin DOMAIN st.orders
    THEN [st EXCEPT !.panic = PanicOrderNotFound]
    ELSE LET order == st.orders[order_id]
             price == order.price
         IN  [st EXCEPT
                !.orders = MapRemove(st.orders, order_id),
                !.asks = IF order.side = Sell
                         THEN CancelLevel(st.asks, price, order_id) ELSE @,
                !.bids = IF order.side = Buy
                         THEN CancelLevel(st.bids, price, order_id) ELSE @,
                !.cancelled = [@ EXCEPT ![order.side] = @ + order.remaining_quantity]]

\* ---------------------------------------------------------------- can_match
\* Mutant of CanMatch: the two comparisons are swapped.
CanMatchSwapped(st, price, side) ==
    IF side = Buy
    THEN IF DOMAIN st.asks = {} THEN FALSE ELSE price <= BestAsk(st.asks)
    ELSE IF DOMAIN st.bids = {} THEN FALSE ELSE price >= BestBid(st.bids)

\* Mutant of CanMatch: a price equal to the best opposite price does not match.
CanMatchStrict(st, price, side) ==
    IF side = Buy
    THEN IF DOMAIN st.asks = {} THEN FALSE ELSE price > BestAsk(st.asks)
    ELSE IF DOMAIN st.bids = {} THEN FALSE ELSE price < BestBid(st.bids)

CanMatch(st, price, side) ==
    IF side = Buy
    THEN IF DOMAIN st.asks = {} THEN FALSE ELSE price >= BestAsk(st.asks)
    ELSE IF DOMAIN st.bids = {} THEN FALSE ELSE price <= BestBid(st.bids)

\* ---------------------------------------------------------------- match_orders
TradeInfo(order_id, price, quantity) ==
    [order_id |-> order_id, price |-> price, quantity |-> quantity]

Trade(bid_trade, ask_trade) == [bid_trade |-> bid_trade, ask_trade |-> ask_trade]

\* Mutant of NothingToMatch: equal prices are taken not to match.
NothingToMatchOrEqual(bid_price, ask_price) == bid_price <= ask_price

\* "Nothing to match in orderbook": the best bid is below the best ask
NothingToMatch(bid_price, ask_price) == bid_price < ask_price

\* Mutant of AfterFill: a filled front order stays in its level.
AfterFillKeeps(level, order) == <<order>> \o Tail(level)

\* The front order of a level after a fill: popped when filled, else updated
\* in place (the fill went through the cell the level points to).
AfterFill(level, order) ==
    IF IsFilled(order) THEN Tail(level) ELSE <<order>> \o Tail(level)

\* The index after a fill of the front order
IndexAfterFill(o, order) ==
    IF IsFilled(order) THEN MapRemove(o, order.order_id) ELSE WriteThrough(o, order)

\* Mutant of PushTrade: both legs carry the price of the ask level.
PushTradeAskPrice(st, bid_price, ask_price, quantity) ==
    IF st.bids[bid_price] = <<>> \/ st.asks[ask_price] = <<>>
    THEN [st EXCEPT !.panic = PanicUnwrapNone]
    ELSE [st EXCEPT !.trades =
            Append(@, Trade(
                TradeInfo(Head(st.bids[bid_price]).order_id, ask_price, quantity),
                TradeInfo(Head(st.asks[ask_price]).order_id, ask_price, quantity)))]

\* trades.push(Trade {..}): both order ids are read from the levels' fronts
\* after the pops; front().unwrap() panics on a level the pop left empty.
PushTrade(st, bid_price, ask_price, quantity) ==
    IF st.bids[bid_price] = <<>> \/ st.asks[ask_price] = <<>>
    THEN [st EXCEPT !.panic = PanicUnwrapNone]
    ELSE [st EXCEPT !.trades =
            Append(@, Trade(
                TradeInfo(Head(st.bids[bid_price]).order_id, bid_price, quantity),
                TradeInfo(Head(st.asks[ask_price]).order_id, ask_price, quantity)))]

\* One iteration of the inner while loop
MatchFront(st, bid_price, ask_price) ==
    LET bid == Head(st.bids[bid_price])
        ask == Head(st.asks[ask_price])
        quantity == Min(bid.remaining_quantity, ask.remaining_quantity)
        fb == Fill(bid, quantity)
        fa == Fill(ask, quantity)
    IN  IF fb.panic # NoPanic THEN [st EXCEPT !.panic = fb.panic]
        ELSE IF fa.panic # NoPanic
        THEN [st EXCEPT !.panic = fa.panic,
                        !.bids = MapPut(@, bid_price,
                                        <<fb.order>> \o Tail(st.bids[bid_price])),
                        !.orders = WriteThrough(@, fb.order)]
        ELSE PushTrade(
               [st EXCEPT
                  !.bids = MapPut(@, bid_price, AfterFill(st.bids[bid_price], fb.order)),
                  !.asks = MapPut(@, ask_price, AfterFill(st.asks[ask_price], fa.order)),
                  !.orders = IndexAfterFill(IndexAfterFill(@, fb.order), fa.order)],
               bid_price, ask_price, quantity)

\* while !bids.1.is_empty() && !asks.1.is_empty()
RECURSIVE MatchLevels(_, _, _)
MatchLevels(st, bid_price, ask_price) ==
    IF st.panic # NoPanic
       \/ st.bids[bid_price] = <<>> \/ st.asks[ask_price] = <<>>
    THEN st
    ELSE MatchLevels(MatchFront(st, bid_price, ask_price), bid_price, ask_price)

\* "remove the level if it is empty", on both sides
RemoveEmptyLevels(st, bid_price, ask_price) ==
    [st EXCEPT
       !.bids = IF @[bid_price] = <<>> THEN MapRemove(@, bid_price) ELSE @,
       !.asks = IF @[ask_price] = <<>> THEN MapRemove(@, ask_price) ELSE @]

\* The sweep of one side: the front order of its best level is cancelled
\* when it is a FillAndKill order.
SweepLevel(st, level) ==
    IF level = <<>> THEN [st EXCEPT !.panic = PanicUnwrapNone]
    ELSE IF Head(level).order_type = FillAndKill
    THEN CancelOrder(st, Head(level).order_id)
    ELSE st

SweepBids(st) ==
    IF DOMAIN st.bids = {} THEN st ELSE SweepLevel(st, st.bids[BestBid(st.bids)])

SweepAsks(st) ==
    IF DOMAIN st.asks = {} THEN st ELSE SweepLevel(st, st.asks[BestAsk(st.asks)])

\* The body of the outer loop once the best levels cross
MatchRound(st, bid_price, ask_price) ==
    LET matched == MatchLevels(st, bid_price, ask_price)
    IN  IF matched.panic # NoPanic THEN matched
        ELSE LET swept == SweepBids(RemoveEmptyLevels(matched, bid_price, ask_price))
             IN  IF swept.panic # NoPanic THEN swept ELSE SweepAsks(swept)

RECURSIVE MatchOrders(_)
MatchOrders(st) ==
    IF st.panic # NoPanic \/ DOMAIN st.bids = {} \/ DOMAIN st.asks = {}
    THEN st
    ELSE IF NothingToMatch(BestBid(st.bids), BestAsk(st.asks))
    THEN st
    ELSE MatchOrders(MatchRound(st, BestBid(st.bids), BestAsk(st.asks)))

\* ---------------------------------------------------------------- add_order
\* Mutant of PushBack: the level is replaced by one holding the new order.
PushBackReplaces(m, price, order) == MapPut(m, price, <<order>>)

\* Mutant of PushBack: the new order is queued ahead of the level's orders.
PushBackAhead(m, price, order) ==
    MapPut(m, price, IF price \in DOMAIN m THEN <<order>> \o m[price] ELSE <<order>>)

\* entry(price).or_insert(OrderList::new()).push_back(order)
PushBack(m, price, order) ==
    MapPut(m, price, IF price \in DOMAIN m THEN Append(m[price], order) ELSE <<order>>)

\* Mutant of InsertOrder: the level is looked up by the order's quantity.
InsertOrderKeyedByQuantity(st, order) ==
    [st EXCEPT
       !.bids = IF order.side = Buy
                THEN PushBack(@, order.remaining_quantity, order) ELSE @,
       !.asks = IF order.side = Sell
                THEN PushBack(@, order.remaining_quantity, order) ELSE @,
       !.orders = MapPut(@, order.order_id, order),
       !.admitted = [@ EXCEPT ![order.side] = @ + order.initial_quantity]]

InsertOrder(st, order) ==
    [st EXCEPT
       !.bids = IF order.side = Buy THEN PushBack(@, order.price, order) ELSE @,
       !.asks = IF order.side = Sell THEN PushBack(@, order.price, order) ELSE @,
       !.orders = MapPut(@, order.order_id, order),
       !.admitted = [@ EXCEPT ![order.side] = @ + order.initial_quantity]]

\* Mutant of AddOrder: an order id already in the index is not turned away.
AddOrderOverwrites(st, order) ==
    IF order.order_type = FillAndKill /\ ~CanMatch(st, order.price, order.side)
    THEN [st EXCEPT !.printed = "Cannot match this Fill and Kill order"]
    ELSE MatchOrders(InsertOrder(st, order))

AddOrder(st, order) ==
    IF order.order_id \in DOMAIN st.orders
    THEN [st EXCEPT !.printed = "Order already exists"]
    ELSE IF order.order_type = FillAndKill /\ ~CanMatch(st, order.price, order.side)
    THEN [st EXCEPT !.printed = "Cannot match this Fill and Kill order"]
    ELSE MatchOrders(InsertOrder(st, order))

\* ---------------------------------------------------------------- match_order
\* Mutant of MatchOrder: the index is not consulted before the cancel.
MatchOrderUnchecked(st, order_modify) ==
    LET cancelled == CancelOrder(st, order_modify.order_id)
    IN  IF cancelled.panic # NoPanic THEN cancelled
        ELSE AddOrder(cancelled, st.orders[order_modify.order_id])

\* The modification names the order; the order that is cancelled is added
\* again as it was.
MatchOrder(st, order_modify) ==
    IF order_modify.order_id \notin DOMAIN st.orders
    THEN st
    ELSE LET order == st.orders[order_modify.order_id]
             cancelled == CancelOrder(st, order.order_id)
         IN  IF cancelled.panic # NoPanic THEN cancelled
             ELSE AddOrder(cancelled, order)

\* ---------------------------------------------------------------- VenueBook
\* A decimal of the wire is counted in quarters of 1/10000, so that the wire
\* can carry values between two stored values.
\* to_u64: (self * 10000.0).round() as u64, halves rounded away from zero
ToU64(x) == (x + 2) \div 4

\* (n as f64) / 10000.0, in quarters of 1/10000
ToF64(n) == 4 * n

\* Prices of the wire: 0.0001, 0.0002, and 0.000175 between the two.  Prices
\* are only compared with each other: a lower and a higher stored price.
WirePrices == {4, 7, 8}
\* Quantities of the wire: zero, a quantity below half of 1/10000, and the
\* stored quantities
WireQuantities == {0, 1} \cup {4 * k : k \in 1..MaxLots}
UpdateIds == 0..MaxSeq

BookTickerUpdates ==
    [update_id : UpdateIds,
     best_bid_price : WirePrices, best_bid_quantity : WireQuantities,
     best_ask_price : WirePrices, best_ask_quantity : WireQuantities]

\* Vec<(f64, f64)> of a depth update: no pair or one pair
Levels == {<<>>} \cup {<<<<p, q>>>> : p \in WirePrices, q \in WireQuantities}

\* Vec<(f64, f64)> of two pairs, the same price twice included
TwoLevels ==
    {<<<<p1, q1>>, <<p2, q2>>>> :
        p1 \in WirePrices, q1 \in WireQuantities,
        p2 \in WirePrices, q2 \in WireQuantities}

\* A depth update names at most one price on each side, or two prices on
\* one side and none on the other.
DepthUpdates ==
    [last_update_id : UpdateIds, bids : Levels, asks : Levels]
    \cup [last_update_id : UpdateIds, bids : TwoLevels, asks : {<<>>}]
    \cup [last_update_id : UpdateIds, bids : {<<>>}, asks : TwoLevels]

\* OrderBook::new
VenueNew == [bids |-> EmptyMap, asks |-> EmptyMap, last_update_id |-> 0]

\* Mutant of UpdateBookTicker: the ticker takes part in the depth sequence.
UpdateBookTickerSequenced(book, data) ==
    IF data.update_id <= book.last_update_id
    THEN book
    ELSE [bids |-> MapPut(book.bids, ToU64(data.best_bid_price),
                          ToU64(data.best_bid_quantity)),
          asks |-> MapPut(book.asks, ToU64(data.best_ask_price),
                          ToU64(data.best_ask_quantity)),
          last_update_id |-> data.update_id]

UpdateBookTicker(book, data) ==
    [book EXCEPT
       !.bids = MapPut(@, ToU64(data.best_bid_price), ToU64(data.best_bid_quantity)),
       !.asks = MapPut(@, ToU64(data.best_ask_price), ToU64(data.best_ask_quantity))]

\* Mutant of UpdateLevels: a quantity of zero is inserted like any other.
RECURSIVE UpdateLevelsKeepsZero(_, _)
UpdateLevelsKeepsZero(m, levels) ==
    IF levels = <<>> THEN m
    ELSE UpdateLevelsKeepsZero(
             MapPut(m, ToU64(Head(levels)[1]), ToU64(Head(levels)[2])),
             Tail(levels))

\* Mutant of UpdateLevels: the loop ends after the first pair.
UpdateLevelsFirstOnly(m, levels) ==
    IF levels = <<>> THEN m
    ELSE IF ToU64(Head(levels)[2]) = 0
    THEN MapRemove(m, ToU64(Head(levels)[1]))
    ELSE MapPut(m, ToU64(Head(levels)[1]), ToU64(Head(levels)[2]))

\* for (price, qty) in levels: remove the price if qty is 0, else insert
RECURSIVE UpdateLevels(_, _)
UpdateLevels(m, levels) ==
    IF levels = <<>> THEN m
    ELSE LET price_u64 == ToU64(Head(levels)[1])
             qty_u64 == ToU64(Head(levels)[2])
         IN  UpdateLevels(IF qty_u64 = 0 THEN MapRemove(m, price_u64)
                                         ELSE MapPut(m, price_u64, qty_u64),
                          Tail(levels))

\* Mutant of UpdateDepth: an update with the id of the last one is applied.
UpdateDepthAgain(book, data) ==
    IF data.last_update_id < book.last_update_id
    THEN book
    ELSE [bids |-> UpdateLevels(book.bids, data.bids),
          asks |-> UpdateLevels(book.asks, data.asks),
          last_update_id |-> data.last_update_id]

\* Mutant of UpdateDepth: last_update_id is not written.
UpdateDepthKeepsId(book, data) ==
    IF data.last_update_id <= book.last_update_id
    THEN book
    ELSE [bids |-> UpdateLevels(book.bids, data.bids),
          asks |-> UpdateLevels(book.asks, data.asks),
          last_update_id |-> book.last_update_id]

UpdateDepth(book, data) ==
    IF data.last_update_id <= book.last_update_id
    THEN book
    ELSE [bids |-> UpdateLevels(book.bids, data.bids),
          asks |-> UpdateLevels(book.asks, data.asks),
          last_update_id |-> data.last_update_id]

\* Mutant of GetBestBidAsk: the best bid is read from the front of bids.
GetBestBidAskFront(book) ==
    IF DOMAIN book.bids = {} \/ DOMAIN book.asks = {}
    THEN <<>>
    ELSE LET best_bid == BestAsk(book.bids)
             best_ask == BestAsk(book.asks)
         IN  << << <<ToF64(best_bid), ToF64(book.bids[best_bid])>>,
                   <<ToF64(best_ask), ToF64(book.asks[best_ask])>> >> >>

\* get_best_bid_ask, as an Option: <<>> or <<<<best_bid, best_ask>>>>, each
\* a pair <<price, quantity>>
GetBestBidAsk(book) ==
    IF DOMAIN book.bids = {} \/ DOMAIN book.asks = {}
    THEN <<>>
    ELSE LET best_bid == BestBid(book.bids)
             best_ask == BestAsk(book.asks)
         IN  << << <<ToF64(best_bid), ToF64(book.bids[best_bid])>>,
                   <<ToF64(best_ask), ToF64(book.asks[best_ask])>> >> >>

\* ---------------------------------------------------------------- calls
\* Quantity filled on a side by the trades of a call
RECURSIVE FilledQuantity(_, _)
FilledQuantity(ts, side) ==
    IF ts = <<>> THEN 0
    ELSE (IF side = Buy THEN Head(ts).bid_trade.quantity
                        ELSE Head(ts).ask_trade.quantity)
         + FilledQuantity(Tail(ts), side)

\* orders.get(&order_id), as an Option: <<>> or <<order>>
Found(order_id) ==
    IF order_id \in DOMAIN orders THEN <<orders[order_id]>> ELSE <<>>

\* The state a call leaves: the book, its trades, and the ledger of a call
\* that returned.
Leave(result, op, order_id) ==
    \E r \in {result} :
        /\ bids' = r.bids
        /\ asks' = r.asks
        /\ orders' = r.orders
        /\ trades' = r.trades
        /\ panicked' = r.panic
        /\ lastOp' = [op |-> op, order_id |-> order_id, found |-> Found(order_id),
                      printed |-> r.printed]
        /\ ledger' = IF r.panic # NoPanic THEN ledger
                     ELSE [s \in Side |-> ledger[s] + r.admitted[s]
                                          - FilledQuantity(r.trades, s) - r.cancelled[s]]
        /\ UNCHANGED venueVars

\* No add_order call is under way.
Idle == [pc |-> "idle"]

Init ==
    /\ bids = EmptyMap
    /\ asks = EmptyMap
    /\ orders = EmptyMap
    /\ trades = <<>>
    /\ panicked = NoPanic
    /\ lastOp = [op |-> "new", order_id |-> 0, found |-> <<>>, printed |-> ""]
    /\ ledger = ZeroQty
    /\ venue = VenueNew
    /\ replay = VenueNew
    /\ venueOp = "new"
    /\ pass = Idle

Submit(order) ==
    /\ panicked = NoPanic
    /\ Leave(AddOrder(Book(bids, asks, orders), order), "add_order", order.order_id)
    /\ UNCHANGED pass

Cancel(order_id) ==
    /\ panicked = NoPanic
    /\ Leave(CancelOrder(Book(bids, asks, orders), order_id), "cancel_order", order_id)
    /\ UNCHANGED pass

Modify(order_modify) ==
    /\ panicked = NoPanic
    /\ Leave(MatchOrder(Book(bids, asks, orders), order_modify), "match_order",
             order_modify.order_id)
    /\ UNCHANGED pass

Next ==
    \/ \E order \in Orders : Submit(order)
    \/ \E order_id \in OrderIds : Cancel(order_id)
    \/ \E order_modify \in OrderModifies : Modify(order_modify)

Spec == Init /\ [][Next]_vars

\* ---------------------------------------------------------------- match_orders, step by step
\* add_order up to the call of match_orders: a rejected order ends the call;
\* an admitted one is queued and the matching pass begins at the head of its
\* outer loop.
AddOrderBegin(order) ==
    /\ panicked = NoPanic
    /\ pass.pc = "idle"
    /\ LET st == Book(bids, asks, orders)
       IN  IF order.order_id \in DOMAIN st.orders
           THEN /\ Leave([st EXCEPT !.printed = "Order already exists"],
                         "add_order", order.order_id)
                /\ UNCHANGED pass
           ELSE IF order.order_type = FillAndKill
                   /\ ~CanMatch(st, order.price, order.side)
           THEN /\ Leave([st EXCEPT !.printed = "Cannot match this Fill and Kill order"],
                         "add_order", order.order_id)
                /\ UNCHANGED pass
           ELSE /\ pass' = [pc |-> "loop", st |-> InsertOrder(st, order),
                            order |-> order, bid_price |-> 0, ask_price |-> 0]
                /\ UNCHANGED <<core, venueVars>>

\* The call ends, returning or aborting, and leaves the book as the pass
\* has it.
PassEnds(st) ==
    /\ Leave(st, "add_order", pass.order.order_id)
    /\ pass' = Idle

\* The head of the outer loop: the pass breaks when a side is empty or the
\* best prices do not cross, else it takes the two best levels.
OuterLoop ==
    /\ pass.pc = "loop"
    /\ IF DOMAIN pass.st.bids = {} \/ DOMAIN pass.st.asks = {}
       THEN PassEnds(pass.st)
       ELSE IF NothingToMatch(BestBid(pass.st.bids), BestAsk(pass.st.asks))
       THEN PassEnds(pass.st)
       ELSE /\ pass' = [pass EXCEPT !.pc = "while",
                                    !.bid_price = BestBid(pass.st.bids),
                                    !.ask_price = BestAsk(pass.st.asks)]
            /\ UNCHANGED <<core, venueVars>>

\* The head of the inner while loop: one more iteration while both levels
\* hold an order; after the loop the empty levels are removed, the two sides
\* are swept, and the pass is back at the head of the outer loop.
InnerLoop ==
    /\ pass.pc = "while"
    /\ LET next ==
             IF pass.st.bids[pass.bid_price] # <<>> /\ pass.st.asks[pass.ask_price] # <<>>
             THEN [pc |-> "while",
                   st |-> MatchFront(pass.st, pass.bid_price, pass.ask_price)]
             ELSE LET swept == SweepBids(RemoveEmptyLevels(pass.st, pass.bid_price,
                                                          pass.ask_price))
                  IN  [pc |-> "loop",
                       st |-> IF swept.panic # NoPanic THEN swept ELSE SweepAsks(swept)]
       IN  IF next.st.panic # NoPanic
           THEN PassEnds(next.st)
           ELSE /\ pass' = [pass EXCEPT !.pc = next.pc, !.st = next.st]
                /\ UNCHANGED <<core, venueVars>>

\* Callers number their orders as they come: a call brings an id the index
\* holds or the next id.
Arriving == {order \in Orders : order.order_id <= Cardinality(DOMAIN orders) + 1}

MatchNext ==
    \/ \E order \in Arriving : AddOrderBegin(order)
    \/ OuterLoop
    \/ InnerLoop

\* A call under way keeps running: the program is single-threaded and
\* nothing in match_orders waits.
MatchSpec == Init /\ [][MatchNext]_vars /\ WF_vars(OuterLoop) /\ WF_vars(InnerLoop)

\* ---------------------------------------------------------------- VenueBook calls
\* The replayed book takes a depth update when its id is above the ids of
\* all depth updates it took before.
Replay(book, data) ==
    IF data.last_update_id > book.last_update_id
    THEN [bids |-> UpdateLevels(book.bids, data.bids),
          asks |-> UpdateLevels(book.asks, data.asks),
          last_update_id |-> data.last_update_id]
    ELSE book

ApplyTicker(data) ==
    /\ venue' = UpdateBookTicker(venue, data)
    /\ replay' = UpdateBookTicker(replay, data)
    /\ venueOp' = "update_book_ticker"
    /\ UNCHANGED <<core, pass>>

ApplyDepth(data) ==
    /\ venue' = UpdateDepth(venue, data)
    /\ replay' = Replay(replay, data)
    /\ venueOp' = IF data.last_update_id <= venue.last_update_id
                  THEN "update_depth: dropped"
                  ELSE IF Len(data.bids) > 1 \/ Len(data.asks) > 1
                  THEN "update_depth: two pairs"
                  ELSE "update_depth"
    /\ UNCHANGED <<core, pass>>

\* get_best_bid_ask(&self): the book is read; the value returned is
\* GetBestBidAsk(venue).
BestBidAsk ==
    /\ venueOp' = "get_best_bid_ask"
    /\ UNCHANGED <<venue, replay>>
    /\ UNCHANGED <<core, pass>>

VenueNext ==
    \/ \E data \in BookTickerUpdates : ApplyTicker(data)
    \/ \E data \in DepthUpdates : ApplyDepth(data)
    \/ BestBidAsk

VenueSpec == Init /\ [][VenueNext]_vars

\* ---------------------------------------------------------------- observers
\* The last call returned: the state is one a client can observe.
Returned == panicked = NoPanic

\* The queue at a price of a side; empty when the side has no such level.
LevelAt(m, price) == IF price \in DOMAIN m THEN m[price] ELSE <<>>

SideMap(b, a, side) == IF side = Buy THEN b ELSE a

\* Every place <<side, price, position>> where a level holds an order
Places(b, a) ==
    {<<s, p, i>> \in Side \X Prices \X (1..Cardinality(OrderIds) + 1) :
        /\ p \in DOMAIN SideMap(b, a, s)
        /\ i <= Len(SideMap(b, a, s)[p])}

OrderAtPlace(b, a, pl) == SideMap(b, a, pl[1])[pl[2]][pl[3]]

RECURSIVE SumRemaining(_)
SumRemaining(level) ==
    IF level = <<>> THEN 0
    ELSE Head(level).remaining_quantity + SumRemaining(Tail(level))

RECURSIVE SumLevels(_, _)
SumLevels(m, prices) ==
    IF prices = {} THEN 0
    ELSE LET p == CHOOSE x \in prices : TRUE
         IN  SumRemaining(m[p]) + SumLevels(m, prices \ {p})

\* Remaining quantity resting on a side
RestingQuantity(side) ==
    SumLevels(SideMap(bids, asks, side), DOMAIN SideMap(bids, asks, side))

\* ---------------------------------------------------------------- claims
\* C1: in every state a call returns to, bids or asks is empty or the
\* highest bid price is strictly below the lowest ask price.
C1_NeverCrossed ==
    Returned =>
        \/ DOMAIN bids = {}
        \/ DOMAIN asks = {}
        \/ BestBid(bids) < BestAsk(asks)

\* C1 witness: an add_order call admitted its order and returned with
\* orders resting on both sides.
C1_Witness ==
    /\ Returned
    /\ lastOp.op = "add_order" /\ lastOp.printed = "" /\ lastOp.found = <<>>
    /\ DOMAIN bids # {} /\ DOMAIN asks # {}

C4_IndexBijection ==
    Returned =>
        /\ \A id \in DOMAIN orders :
              /\ orders[id].order_id = id
              /\ Cardinality({pl \in Places(bids, asks) :
                                OrderAtPlace(bids, asks, pl).order_id = id}) = 1
              /\ \A pl \in Places(bids, asks) :
                    OrderAtPlace(bids, asks, pl).order_id = id =>
                        /\ pl[1] = orders[id].side
                        /\ pl[2] = orders[id].price
                        /\ OrderAtPlace(bids, asks, pl) = orders[id]
        /\ \A pl \in Places(bids, asks) :
              OrderAtPlace(bids, asks, pl).order_id \in DOMAIN orders

\* C4 witness: cancel_order removed a resident order and left two others.
C4_Witness ==
    /\ Returned
    /\ lastOp.op = "cancel_order" /\ lastOp.found # <<>>
    /\ Cardinality(DOMAIN orders) = 2

\* C5: in every state a call returns to, every price key of bids and of asks
\* maps to a non-empty queue.
C5_NoEmptyLevel ==
    Returned =>
        /\ \A p \in DOMAIN bids : bids[p] # <<>>
        /\ \A p \in DOMAIN asks : asks[p] # <<>>

\* C5 witness: cancel_order took the only order of its level while another
\* level of the same side stays.
C5_Witness ==
    /\ Returned
    /\ lastOp.op = "cancel_order" /\ lastOp.found # <<>>
    /\ LET side == lastOp.found[1].side
           m == SideMap(bids, asks, side)
       IN  lastOp.found[1].price \notin DOMAIN m /\ DOMAIN m # {}

\* C6: in every state a call returns to, per side, the initial quantity of
\* all admitted orders less the quantity filled in returned trades and less
\* the quantity taken out by cancel_order equals the quantity resting.
C6_QuantityConserved ==
    Returned => \A s \in Side : ledger[s] = RestingQuantity(s)

\* C6 witness: after a cancel, with quantity still resting on both sides.
C6_Witness ==
    /\ Returned
    /\ lastOp.op = "cancel_order" /\ lastOp.found # <<>>
    /\ RestingQuantity(Buy) > 0 /\ RestingQuantity(Sell) > 0

\* C3: an admitted FillAndKill order trades with every resting opposite
\* order at a price compatible with its limit, across levels, until it is
\* filled or none is left: the call returns, the quantity it traded is the
\* smaller of its own quantity and the compatible resting quantity, and the
\* order is not resident afterwards.
Compatible(order, price) ==
    IF order.side = Buy THEN price <= order.price ELSE price >= order.price

CompatibleQuantity(order) ==
    LET m == IF order.side = Buy THEN asks ELSE bids
    IN  SumLevels(m, {p \in DOMAIN m : Compatible(order, p)})

Admitted(order) ==
    /\ order.order_id \notin DOMAIN orders
    /\ order.order_type = FillAndKill =>
          CanMatch(Book(bids, asks, orders), order.price, order.side)

C3_FakTradesAllCompatible ==
    [][\A order \in Orders :
          (Submit(order) /\ order.order_type = FillAndKill /\ Admitted(order)) =>
              /\ panicked' = NoPanic
              /\ FilledQuantity(trades', order.side)
                    = Min(order.initial_quantity, CompatibleQuantity(order))
              /\ order.order_id \notin DOMAIN orders']_vars

\* C7: match_order of a resident order leaves the book, the trades and the
\* outcome that cancel_order followed by add_order of a new order does, the
\* new order having the old id and type and the modification's price, side
\* and quantity.
CancelThenSubmit(order_modify) ==
    LET old == orders[order_modify.order_id]
        cancelled == CancelOrder(Book(bids, asks, orders), order_modify.order_id)
    IN  AddOrder(cancelled,
                 OrderNew(order_modify.order_id, order_modify.price,
                          order_modify.quantity, old.order_type, order_modify.side))

C7_ModifyIsCancelThenSubmit ==
    [][\A order_modify \in OrderModifies :
          (Modify(order_modify) /\ order_modify.order_id \in DOMAIN orders) =>
              LET r == CancelThenSubmit(order_modify)
              IN  /\ bids' = r.bids
                  /\ asks' = r.asks
                  /\ orders' = r.orders
                  /\ trades' = r.trades
                  /\ panicked' = r.panic]_vars

\* C8: after match_order of a resting order the order is behind every other
\* order of its level, and an opposite order submitted next that reaches
\* that level returns trades, the first of them with the order at the front
\* of the level, which is not the modified one.
ModifiedLevel ==
    LET cur == orders[lastOp.order_id]
    IN  SideMap(bids, asks, cur.side)[cur.price]

AfterModifyOfResting ==
    /\ Returned
    /\ lastOp.op = "match_order" /\ lastOp.found # <<>>
    /\ lastOp.order_id \in DOMAIN orders
    /\ Len(ModifiedLevel) >= 2

ReachesModifiedLevel(order) ==
    LET cur == orders[lastOp.order_id]
    IN  /\ order.order_id \notin DOMAIN orders
        /\ order.side # cur.side
        /\ Compatible(order, cur.price)
        /\ cur.price = IF cur.side = Buy THEN BestBid(bids) ELSE BestAsk(asks)

RestingLeg(trade, side) == IF side = Buy THEN trade.bid_trade ELSE trade.ask_trade

C8_ModifyLosesPriority ==
    [][\A order \in Orders :
          (AfterModifyOfResting /\ ReachesModifiedLevel(order) /\ Submit(order)) =>
              LET cur == orders[lastOp.order_id]
                  level == ModifiedLevel
              IN  /\ level[Len(level)].order_id = cur.order_id
                  /\ panicked' = NoPanic
                  /\ trades' # <<>>
                  /\ RestingLeg(trades'[1], cur.side).order_id = level[1].order_id
                  /\ level[1].order_id # cur.order_id]_vars

\* C8, the part about the queue alone: right after match_order of a resting
\* order, the order is the last of its level.
C8_RequeuedLast ==
    AfterModifyOfResting =>
        ModifiedLevel[Len(ModifiedLevel)].order_id = lastOp.order_id

\* C9: cancel_order of an id that is not in the index returns and leaves
\* bids, asks and the index as they were.
C9_CancelUnknownNotFound ==
    [][\A order_id \in OrderIds :
          (Cancel(order_id) /\ order_id \notin DOMAIN orders) =>
              /\ panicked' = NoPanic
              /\ bids' = bids /\ asks' = asks /\ orders' = orders]_vars

\* C10: cancel_order of a resident order returns with no trades, takes that
\* id out of the index and that order out of its level, keeps every other
\* order, with its quantity, in its level and in its place in the queue, and
\* removes the level exactly when no order is left in it.
Without(level, order_id) == SelectSeq(level, LAMBDA o : o.order_id # order_id)

CancelledExactly(order_id) ==
    LET order == orders[order_id]
    IN  /\ panicked' = NoPanic
        /\ trades' = <<>>
        /\ DOMAIN orders' = DOMAIN orders \ {order_id}
        /\ \A id \in DOMAIN orders' : orders'[id] = orders[id]
        /\ \A s \in Side, p \in Prices :
              LET old == LevelAt(SideMap(bids, asks, s), p)
                  new == LevelAt(SideMap(bids', asks', s), p)
              IN  /\ new = IF s = order.side /\ p = order.price
                           THEN Without(old, order_id) ELSE old
                  /\ p \in DOMAIN SideMap(bids', asks', s) <=> new # <<>>

C10_CancelFrame ==
    [][\A order_id \in OrderIds :
          (/\ order_id \in DOMAIN orders
           /\ lastOp'.op = "cancel_order" /\ lastOp'.order_id = order_id
           /\ Cancel(order_id)) =>
              CancelledExactly(order_id)]_vars

\* C10 witness: cancel_order took an order out of a level that keeps two
\* others.
C10_Witness ==
    /\ Returned
    /\ lastOp.op = "cancel_order" /\ lastOp.found # <<>>
    /\ Len(LevelAt(SideMap(bids, asks, lastOp.found[1].side),
                   lastOp.found[1].price)) = 2

\* ---------------------------------------------------------------- rejections
\* The marketability test in words of the book a client sees: a buy reaches
\* the lowest ask, a sell reaches the highest bid.
Marketable(price, side) ==
    IF side = Buy
    THEN DOMAIN asks # {} /\ \E p \in DOMAIN asks : p <= price
    ELSE DOMAIN bids # {} /\ \E p \in DOMAIN bids : p >= price

BookUnchanged == bids' = bids /\ asks' = asks /\ orders' = orders

\* The call returned without a trade and without touching the book.
Rejected == panicked' = NoPanic /\ trades' = <<>> /\ BookUnchanged

\* What add_order(order) does in the current state
Submitted(order) == AddOrder(Book(bids, asks, orders), order)

\* add_order(order) returns without a trade and without touching the book.
TurnedAway(order) ==
    LET r == Submitted(order)
    IN  /\ r.panic = NoPanic /\ r.trades = <<>>
        /\ r.bids = bids /\ r.asks = asks /\ r.orders = orders

\* C11 as stated: add_order of a Fill-and-Kill order is rejected exactly when
\* the order is not marketable, and a rejected order leaves no trade and an
\* unchanged book.  An order whose id is in the index is rejected although it
\* is marketable.
C11_FakRejectedIffNotMarketable ==
    Returned =>
        \A order \in Orders :
            order.order_type = FillAndKill =>
                (TurnedAway(order) <=> ~Marketable(order.price, order.side))

\* C11 amended: add_order of a Fill-and-Kill order whose id is not in the
\* index is rejected exactly when the order is not marketable; the rejected
\* order leaves no trade and an unchanged book.
C11_NewFakRejectedIffNotMarketable ==
    Returned =>
        \A order \in Orders :
            (order.order_type = FillAndKill /\ order.order_id \notin DOMAIN orders) =>
                (TurnedAway(order) <=> ~Marketable(order.price, order.side))

\* C11 witness: a Fill-and-Kill order was turned away by a book that has
\* orders on both sides.
C11_Witness ==
    /\ Returned
    /\ lastOp.printed = "Cannot match this Fill and Kill order"
    /\ DOMAIN bids # {} /\ DOMAIN asks # {}

C13_ModifyUnknownIsNoOp ==
    [][\A order_modify \in OrderModifies :
          (/\ order_modify.order_id \notin DOMAIN orders
           /\ lastOp'.op = "match_order"
           /\ lastOp'.order_id = order_modify.order_id
           /\ Modify(order_modify)) =>
              Rejected]_vars

\* C13 witness: match_order named an absent id while other orders rest.
C13_Witness ==
    /\ Returned
    /\ lastOp.op = "match_order" /\ lastOp.found = <<>>
    /\ DOMAIN orders # {}

\* ---------------------------------------------------------------- quantities
\* Every order the book holds, through a level or through the index
HeldOrders(b, a, o) ==
    {OrderAtPlace(b, a, pl) : pl \in Places(b, a)} \cup {o[id] : id \in DOMAIN o}

WithinInitial ==
    \A order \in HeldOrders(bids, asks, orders) :
        /\ 0 <= order.remaining_quantity
        /\ order.remaining_quantity <= order.initial_quantity

NeverGrows ==
    \/ BookUnchanged
    \/ \A old \in HeldOrders(bids, asks, orders) :
          \A new \in HeldOrders(bids', asks', orders') :
              new.order_id = old.order_id =>
                  /\ new.initial_quantity = old.initial_quantity
                  /\ new.remaining_quantity <= old.remaining_quantity

\* C14: in every state every order held has
\* 0 <= remaining_quantity <= initial_quantity, and from one state to the next
\* its initial_quantity is the same and its remaining_quantity is not larger.
C14_RemainingWithinInitial ==
    []WithinInitial /\ [][NeverGrows]_vars

\* C14 witness: an order is held partly filled.
C14_Witness ==
    \E order \in HeldOrders(bids, asks, orders) :
        /\ 0 < order.remaining_quantity
        /\ order.remaining_quantity < order.initial_quantity

\* C15: all submitted quantities being positive, between calls every order in
\* a level has the level's price and a positive remaining_quantity.
C15_LevelOrdersLive ==
    Returned =>
        \A pl \in Places(bids, asks) :
            /\ OrderAtPlace(bids, asks, pl).price = pl[2]
            /\ OrderAtPlace(bids, asks, pl).remaining_quantity > 0

\* C15 witness: after a match_order of a resident order the book holds
\* orders at two prices of one side.
C15_Witness ==
    /\ Returned
    /\ lastOp.op = "match_order" /\ lastOp.found # <<>>
    /\ \E s \in Side : Cardinality(DOMAIN SideMap(bids, asks, s)) = 2

\* C16: no add_order aborts in its matching pass: Order::fill is not called
\* with more than the remaining quantity, and the front of an empty level is
\* not taken.
C16_NoAbortInMatching ==
    lastOp.op = "add_order" => panicked \notin {PanicFill, PanicUnwrapNone}

\* C17: an incoming buy that walks two ask levels trades each level at the
\* resting order's price on both legs: resting asks low and high, one per
\* level, and a Good-till-cancel buy at the higher price for more than the
\* lower ask and less than both leave two trades, no bid, and the higher ask
\* with what is left.
WalksTwoAsks(low, high, order) ==
    /\ order.order_type = GoodToCancel /\ order.side = Buy
    /\ order.order_id \notin DOMAIN orders
    /\ order.price = high.price
    /\ low.remaining_quantity < order.initial_quantity
    /\ order.initial_quantity < low.remaining_quantity + high.remaining_quantity

C17_TradesAtRestingPrice ==
    [][(/\ lastOp'.op = "add_order"
        /\ bids = EmptyMap
        /\ Cardinality(DOMAIN asks) = 2
        /\ \A p \in DOMAIN asks : Len(asks[p]) = 1) =>
           LET low == asks[BestAsk(asks)][1]
               high == asks[BestBid(asks)][1]
           IN  \A order \in Orders :
                  (/\ order.order_id = lastOp'.order_id
                   /\ WalksTwoAsks(low, high, order)
                   /\ Submit(order)) =>
                      LET first == low.remaining_quantity
                          second == order.initial_quantity - first
                      IN  /\ panicked' = NoPanic
                          /\ trades' =
                               <<Trade(TradeInfo(order.order_id, low.price, first),
                                       TradeInfo(low.order_id, low.price, first)),
                                 Trade(TradeInfo(order.order_id, high.price, second),
                                       TradeInfo(high.order_id, high.price, second))>>
                          /\ bids' = EmptyMap
                          /\ asks' = (high.price :>
                                        <<[high EXCEPT !.remaining_quantity = @ - second]>>)
                          /\ DOMAIN orders' = {high.order_id}]_vars

\* ---------------------------------------------------------------- VenueBook claims
\* C18: update_depth with an id at or below last_update_id leaves bids, asks
\* and last_update_id unchanged, and the book is at all times the book that
\* the depth updates newer than all depth updates before them leave.
C18_StaleDepthDropped ==
    [](/\ \A data \in DepthUpdates :
             data.last_update_id <= venue.last_update_id =>
                 UpdateDepth(venue, data) = venue
       /\ venue = replay)

\* C18 witness: a depth update was dropped by a book that holds bids and has
\* taken a depth update.
C18_Witness ==
    /\ venueOp = "update_depth: dropped"
    /\ venue.last_update_id > 0
    /\ DOMAIN venue.bids # {}

\* C19: the venue book never holds a price with quantity zero.
C19_NoZeroQuantity ==
    /\ \A p \in DOMAIN venue.bids : venue.bids[p] # 0
    /\ \A p \in DOMAIN venue.asks : venue.asks[p] # 0

\* The price and the quantity the book stores for a pair of the wire, as
\* get_best_bid_ask gives them back
Stored(price, quantity) == <<ToF64(ToU64(price)), ToF64(ToU64(quantity))>>

\* C20: after update_book_ticker(data), get_best_bid_ask returns the bid of
\* the ticker as best bid and the ask of the ticker as best ask, whatever the
\* book held before.
C20_TickerIsBest ==
    \A data \in BookTickerUpdates :
        GetBestBidAsk(UpdateBookTicker(venue, data)) =
            << << Stored(data.best_bid_price, data.best_bid_quantity),
                  Stored(data.best_ask_price, data.best_ask_quantity) >> >>

\* A depth update the book takes
Fresh(data) == data.last_update_id > venue.last_update_id

\* The pairs of a list that name the stored price k
Naming(levels, k) == {i \in 1..Len(levels) : ToU64(levels[i][1]) = k}

\* new is old with every pair of the list applied in turn: a price the list
\* does not name is as it was; a price it names is as the last pair naming
\* it says, gone when that quantity is zero and set to it otherwise.
SideApplied(old, levels, new) ==
    \A k \in DOMAIN old \cup DOMAIN new
             \cup {ToU64(levels[i][1]) : i \in 1..Len(levels)} :
        IF Naming(levels, k) = {}
        THEN /\ k \in DOMAIN new <=> k \in DOMAIN old
             /\ k \in DOMAIN old => new[k] = old[k]
        ELSE LET last == CHOOSE i \in Naming(levels, k) :
                             \A j \in Naming(levels, k) : j <= i
                 quantity == ToU64(levels[last][2])
             IN  IF quantity = 0
                 THEN k \notin DOMAIN new
                 ELSE k \in DOMAIN new /\ new[k] = quantity

\* C21: update_depth with an id above last_update_id applies every pair of
\* bids to bids and of asks to asks, a zero quantity removing the price and
\* any other setting it; prices not named are unchanged, each side is
\* changed by its own list only, and last_update_id becomes the update's id.
C21_DepthApplied ==
    [](\A data \in DepthUpdates :
          Fresh(data) =>
              LET r == UpdateDepth(venue, data)
              IN  /\ SideApplied(venue.bids, data.bids, r.bids)
                  /\ SideApplied(venue.asks, data.asks, r.asks)
                  /\ r.last_update_id = data.last_update_id)

\* C21 witness: a depth update was taken by a book and has left it with
\* entries on both sides.
C21_Witness ==
    /\ venueOp \in {"update_depth", "update_depth: two pairs"}
    /\ venue.last_update_id > 1
    /\ DOMAIN venue.bids # {} /\ DOMAIN venue.asks # {}

\* new is old with price k set to quantity and nothing else touched.
Upserted(old, k, quantity, new) ==
    /\ DOMAIN new = DOMAIN old \cup {k}
    /\ new[k] = quantity
    /\ \A x \in DOMAIN old \ {k} : new[x] = old[x]

\* C22: update_book_ticker sets the ticker's bid price and ask price to the
\* ticker's quantities, whatever the ticker's update id, and leaves
\* last_update_id and every other price as they were.
C22_TickerOutsideSequence ==
    [](\A data \in BookTickerUpdates :
          LET r == UpdateBookTicker(venue, data)
          IN  /\ Upserted(venue.bids, ToU64(data.best_bid_price),
                          ToU64(data.best_bid_quantity), r.bids)
              /\ Upserted(venue.asks, ToU64(data.best_ask_price),
                          ToU64(data.best_ask_quantity), r.asks)
              /\ r.last_update_id = venue.last_update_id)

\* C22 witness: a ticker was taken by a book that is in the middle of the
\* depth sequence and holds another bid.
C22_Witness ==
    /\ venueOp = "update_book_ticker"
    /\ venue.last_update_id = 1
    /\ Cardinality(DOMAIN venue.bids) = 2

\* Every order of the pairs of a list
Reorderings(levels) ==
    {[i \in 1..Len(levels) |-> levels[f[i]]] : f \in Permutations(1..Len(levels))}

SameWhateverOrder(data) ==
    \A bs \in Reorderings(data.bids), as \in Reorderings(data.asks) :
        UpdateDepth(venue, [data EXCEPT !.bids = bs, !.asks = as])
            = UpdateDepth(venue, data)

\* No stored price is named by two pairs of the list.
DistinctPrices(levels) ==
    \A i, j \in 1..Len(levels) :
        ToU64(levels[i][1]) = ToU64(levels[j][1]) => i = j

\* C23 as stated: the book a taken depth update leaves is the same for every
\* order of the pairs of its bids and of its asks, lists naming a price twice
\* included.
C23_PairOrderIrrelevant ==
    \A data \in DepthUpdates : Fresh(data) => SameWhateverOrder(data)

\* C23 amended: the book a taken depth update leaves is the same for every
\* order of the pairs of its bids and of its asks when neither list names a
\* stored price twice.
C23_DistinctPairOrderIrrelevant ==
    [](\A data \in DepthUpdates :
          (Fresh(data) /\ DistinctPrices(data.bids) /\ DistinctPrices(data.asks)) =>
              SameWhateverOrder(data))

\* C23 witness: a depth update of two pairs was taken and the book holds two
\* prices on a side.
C23_Witness ==
    /\ venueOp = "update_depth: two pairs"
    /\ \/ Cardinality(DOMAIN venue.bids) = 2
       \/ Cardinality(DOMAIN venue.asks) = 2

\* C24: last_update_id starts at 0, no call makes it smaller, and it is at
\* all times the largest id among the depth updates taken (0 if none), which
\* is what the replayed book keeps.
C24_LastUpdateIdMonotone ==
    /\ venue.last_update_id = 0
    /\ [](venue.last_update_id = replay.last_update_id)
    /\ [][venue'.last_update_id >= venue.last_update_id]_vars

\* C24 witness: a ticker was taken after the depth update with the largest
\* id.
C24_Witness ==
    /\ venueOp = "update_book_ticker"
    /\ venue.last_update_id = MaxSeq

\* The value get_best_bid_ask returns in the current state
BestNow == GetBestBidAsk(venue)

BestIsTop ==
    /\ BestNow = <<>> <=> (DOMAIN venue.bids = {} \/ DOMAIN venue.asks = {})
    /\ BestNow # <<>> =>
          /\ \E p \in DOMAIN venue.bids :
                /\ \A q \in DOMAIN venue.bids : q <= p
                /\ BestNow[1][1] = <<ToF64(p), ToF64(venue.bids[p])>>
          /\ \E p \in DOMAIN venue.asks :
                /\ \A q \in DOMAIN venue.asks : p <= q
                /\ BestNow[1][2] = <<ToF64(p), ToF64(venue.asks[p])>>

\* C25: get_best_bid_ask returns None exactly when bids or asks is empty, and
\* otherwise the highest bid price and the lowest ask price, each with the
\* quantity stored at it; the call changes nothing of the book.
C25_BestBidAsk ==
    /\ []BestIsTop
    /\ [][venueOp' = "get_best_bid_ask" => venue' = venue]_vars

\* C25 witness: get_best_bid_ask was called on a book with two prices on
\* each side.
C25_Witness ==
    /\ venueOp = "get_best_bid_ask"
    /\ Cardinality(DOMAIN venue.bids) = 2
    /\ Cardinality(DOMAIN venue.asks) = 2

\* ---------------------------------------------------------------- priority
\* The fills that price/time priority prescribes for a book: the front of the
\* highest bid level against the front of the lowest ask level for the
\* smaller of their remaining quantities, while the two prices cross.
Queued(m, order) == MapPut(m, order.price, LevelAt(m, order.price) \o <<order>>)

\* The front of level p is reduced by quantity; it leaves when nothing
\* remains, and the level leaves with its last order.
Taken(m, p, quantity) ==
    LET left == [m[p][1] EXCEPT !.remaining_quantity = @ - quantity]
        level == IF left.remaining_quantity = 0
                 THEN Tail(m[p]) ELSE <<left>> \o Tail(m[p])
    IN  IF level = <<>> THEN MapRemove(m, p) ELSE MapPut(m, p, level)

Crossing(b, a) ==
    /\ DOMAIN b # {} /\ DOMAIN a # {}
    /\ \E p \in DOMAIN b, q \in DOMAIN a : p >= q

\* The first fill of a crossing book
NextFill(b, a) ==
    LET bid_price == CHOOSE p \in DOMAIN b : \A x \in DOMAIN b : x <= p
        ask_price == CHOOSE p \in DOMAIN a : \A x \in DOMAIN a : p <= x
        bid == b[bid_price][1]
        ask == a[ask_price][1]
    IN  [bid |-> bid, ask |-> ask, bid_price |-> bid_price, ask_price |-> ask_price,
         quantity |-> IF bid.remaining_quantity <= ask.remaining_quantity
                      THEN bid.remaining_quantity ELSE ask.remaining_quantity]

\* The book after its first n fills, with those fills
RECURSIVE PriorityMatch(_, _, _)
PriorityMatch(b, a, n) ==
    IF n = 0 \/ ~Crossing(b, a)
    THEN [bids |-> b, asks |-> a, fills |-> <<>>]
    ELSE LET fill == NextFill(b, a)
             rest == PriorityMatch(Taken(b, fill.bid_price, fill.quantity),
                                   Taken(a, fill.ask_price, fill.quantity), n - 1)
         IN  [rest EXCEPT !.fills = <<fill>> \o @]

\* All fills of add_order(order) in the current book; no more fills than
\* orders queued.
PriorityFills(order) ==
    PriorityMatch(IF order.side = Buy THEN Queued(bids, order) ELSE bids,
                  IF order.side = Sell THEN Queued(asks, order) ELSE asks,
                  Cardinality(OrderIds) + 1).fills

\* add_order(order) gets past the two rejections.
Admissible(order) ==
    /\ order.order_id \notin DOMAIN orders
    /\ order.order_type = FillAndKill => Marketable(order.price, order.side)

\* C26: every trade of the matching pass names on its two legs the two
\* orders reduced in that fill, the fronts of the best bid level and the best
\* ask level before the fill, also when the fill uses up one or both.
C26_TradeNamesFilledOrders ==
    Returned =>
        \A order \in Orders :
            Admissible(order) =>
                LET made == Submitted(order).trades
                    fills == PriorityFills(order)
                IN  \A i \in 1..Len(made) :
                        /\ i <= Len(fills)
                        /\ made[i].bid_trade.order_id = fills[i].bid.order_id
                        /\ made[i].ask_trade.order_id = fills[i].ask.order_id

\* C27: in every trade of the matching pass the bid leg has the price of the
\* bid level matched, the ask leg the price of the ask level matched, and both
\* legs the same quantity, the smaller of the two fronts' remaining
\* quantities before the fill.
C27_TradePricesAndQuantity ==
    Returned =>
        \A order \in Orders :
            Admissible(order) =>
                LET made == Submitted(order).trades
                    fills == PriorityFills(order)
                IN  \A i \in 1..Len(made) :
                        /\ i <= Len(fills)
                        /\ made[i].bid_trade.price = fills[i].bid_price
                        /\ made[i].ask_trade.price = fills[i].ask_price
                        /\ made[i].bid_trade.quantity = made[i].ask_trade.quantity
                        /\ made[i].bid_trade.quantity =
                              Min(fills[i].bid.remaining_quantity,
                                  fills[i].ask.remaining_quantity)

\* C27 witness: the matching pass has made a trade between a bid level and an
\* ask level of different prices (in a call that then aborted).
C27_Witness ==
    /\ lastOp.op = "add_order"
    /\ Len(trades) >= 1
    /\ trades[1].bid_trade.price > trades[1].ask_trade.price

\* C28: add_order fills resting orders in strict price/time priority and
\* returns the trades in that order, one for each fill.
C28_TradesInPriorityOrder ==
    Returned =>
        \A order \in Orders :
            Admissible(order) =>
                LET r == Submitted(order)
                    fills == PriorityFills(order)
                IN  /\ r.panic = NoPanic
                    /\ Len(r.trades) = Len(fills)
                    /\ \A i \in 1..Len(fills) :
                          /\ r.trades[i].bid_trade.order_id = fills[i].bid.order_id
                          /\ r.trades[i].ask_trade.order_id = fills[i].ask.order_id

\* The levels of a side that hold an order
Occupied(m) == [p \in {x \in DOMAIN m : m[x] # <<>>} |-> m[p]]

\* The fills themselves follow price/time priority: the book add_order leaves,
\* the one an aborted call leaves included, is the book after the first
\* fills that priority prescribes, one fill for each trade made and one more
\* for the fill that aborts.
C28_FillsInPriority ==
    Returned =>
        \A order \in Orders :
            Admissible(order) =>
                LET r == Submitted(order)
                    n == Len(r.trades) + IF r.panic = PanicUnwrapNone THEN 1 ELSE 0
                    ref == PriorityMatch(
                              IF order.side = Buy THEN Queued(bids, order) ELSE bids,
                              IF order.side = Sell THEN Queued(asks, order) ELSE asks,
                              n)
                IN  /\ Occupied(r.bids) = ref.bids
                    /\ Occupied(r.asks) = ref.asks
                    /\ Len(ref.fills) = n

\* ---------------------------------------------------------------- termination
\* The step-by-step pass computes what match_orders computes: from every
\* point of the pass, finishing it gives the result of add_order.
PassAgrees ==
    /\ pass.pc = "loop" =>
          MatchOrders(pass.st) = AddOrder(Book(bids, asks, orders), pass.order)
    /\ pass.pc = "while" =>
          MatchOrders(MatchRound(pass.st, pass.bid_price, pass.ask_price))
             = AddOrder(Book(bids, asks, orders), pass.order)

\* The inner loop is never left by its condition: at its head both levels
\* hold an order, so the level removal and the sweep after it are not reached.
SweepNotReached ==
    pass.pc = "while" =>
        pass.st.bids[pass.bid_price] # <<>> /\ pass.st.asks[pass.ask_price] # <<>>

\* Orders queued in the levels of a side
RECURSIVE Queue(_)
Queue(m) ==
    IF DOMAIN m = {} THEN 0
    ELSE LET p == CHOOSE x \in DOMAIN m : TRUE
         IN  Len(m[p]) + Queue(MapRemove(m, p))

\* What the pass has left to work on: the orders queued and the price
\* levels of both sides.
Size(st) ==
    Queue(st.bids) + Queue(st.asks)
    + Cardinality(DOMAIN st.bids) + Cardinality(DOMAIN st.asks)

\* A step of the pass that does not end the call
PassGoesOn == pass.pc # "idle" /\ pass'.pc # "idle"

\* An iteration of the inner loop takes at least one order out of a level; a
\* round of the outer loop takes out at least one order or level.
Shrinks ==
    /\ PassGoesOn /\ pass.pc = "while" /\ pass'.pc = "while" =>
          Queue(pass'.st.bids) + Queue(pass'.st.asks)
             < Queue(pass.st.bids) + Queue(pass.st.asks)
    /\ PassGoesOn /\ pass.pc = "while" /\ pass'.pc = "loop" =>
          Size(pass'.st) < Size(pass.st)
    /\ PassGoesOn /\ pass.pc = "loop" => pass'.st = pass.st

Uncrossed ==
    DOMAIN bids = {} \/ DOMAIN asks = {} \/ BestBid(bids) < BestAsk(asks)

Opposite(side) == IF side = Buy THEN Sell ELSE Buy

\* A side without the order of the given id: its levels in their order,
\* levels left without an order dropped.
SideWithout(m, order_id) ==
    Occupied([p \in DOMAIN m |-> Without(m[p], order_id)])

\* What is left of the order on the side after the call: its remaining
\* quantity where it is queued, nothing when it has left the book.
LeftOf(m, order) ==
    IF \E i \in 1..Len(LevelAt(m, order.price)) :
          m[order.price][i].order_id = order.order_id
    THEN SumRemaining(LevelAt(m, order.price))
         - SumRemaining(Without(LevelAt(m, order.price), order.order_id))
    ELSE 0

\* add_order(order) has left the other orders of the order's side as they
\* were, in their places, the order itself behind them at its price and
\* nowhere else; what the opposite side has lost is what the order has lost,
\* and every trade names the order on the leg of its side.
SameSideKept(order, r) ==
    \A old \in {SideMap(bids, asks, order.side)},
       new \in {SideMap(r.bids, r.asks, order.side)},
       across \in {SideMap(bids, asks, Opposite(order.side))},
       acrossNew \in {SideMap(r.bids, r.asks, Opposite(order.side))} :
        /\ SideWithout(new, order.order_id) = old
        /\ \A p \in DOMAIN new : \A i \in 1..Len(new[p]) :
              new[p][i].order_id = order.order_id =>
                  p = order.price /\ i = Len(new[p])
        /\ \A id \in DOMAIN orders :
              orders[id].side = order.side =>
                  id \in DOMAIN r.orders /\ r.orders[id] = orders[id]
        /\ SumLevels(across, DOMAIN across) - SumLevels(acrossNew, DOMAIN acrossNew)
              = order.initial_quantity - LeftOf(new, order)
        /\ \A i \in 1..Len(r.trades) :
              (IF order.side = Buy THEN r.trades[i].bid_trade
                                   ELSE r.trades[i].ask_trade).order_id = order.order_id

\* C31: add_order of an order of side S on an uncrossed book never fills or
\* reorders the other orders resting on side S: they keep their levels, their
\* places and their remaining quantities, the incoming order is the only
\* order of side S that is reduced, and what the opposite side is filled for
\* is what the incoming order is filled for. An order that is turned away
\* leaves both sides as they were.
C31_SameSideFrame ==
    []((Returned /\ Uncrossed) =>
          \A order \in Orders :
              \A r \in {Submitted(order)} :
                  IF Admissible(order)
                  THEN SameSideKept(order, r)
                  ELSE r.bids = bids /\ r.asks = asks /\ r.orders = orders)

\* C31 witness: an add_order call has filled its order in part against the
\* opposite side while another order was resting on the order's own side.
C31_Witness ==
    /\ lastOp.op = "add_order"
    /\ lastOp.order_id \in DOMAIN orders
    /\ LET order == orders[lastOp.order_id]
       IN  /\ order.remaining_quantity < order.initial_quantity
           /\ \E id \in DOMAIN orders :
                 id # order.order_id /\ orders[id].side = order.side

====
